---- MODULE Spec2Model ----
(***************************************************************************)
(* uhome2mqtt: the polling-and-publish engine of src/uhome2mqtt.py (one    *)
(* update_publish_loop task per thermostat, the trigger loop of main) and  *)
(* the publish channel of src/mqttclient.py (MqttPubClient).               *)
(*                                                                         *)
(* Scheduling is that of one asyncio event loop: a coroutine runs without  *)
(* interruption from one suspension point (await) to the next, so every    *)
(* action below is the code between two suspension points.  The section of *)
(* update_publish_loop after async_update() returns is a single            *)
(* uninterrupted section; it is written as two steps (the except/else of   *)
(* the refresh, then the payload and the clear) and `current` keeps every  *)
(* other action out until the second step is done.                         *)
(*                                                                         *)
(* Time is in seconds.  The steps of the event loop take no time: the      *)
(* clock advances only when no step is ready to run.                       *)
(***************************************************************************)
EXTENDS Integers, Sequences, FiniteSets, TLC

(* Bounds of the model. *)
NumThermostats == 2
MaxRounds == 3
IntervalSpan == 1
TickSeconds == 8
CountCap == 2
MaxMessages == 3
EnvSpan == 2
MaxDevices == 2
MaxNameLen == 2

(* src/uhome2mqtt.py:16 *)
MIN_UPDATE_INTERVAL == 15

(* src/uhome2mqtt.py:17 *)
DEFAULT_UPDATE_INTERVAL == 60

(* src/uhome2mqtt.py:154 *)
KEEP_ALIVE_MARGIN == 5

\* uhome.thermostats: the devices main builds controllers for
Thermostats == 1..NumThermostats

\* the values update_interval can take (at or above the floor)
Intervals == MIN_UPDATE_INTERVAL..(MIN_UPDATE_INTERVAL + IntervalSpan)

\* what `await self.thermostat.async_update()` followed by is_valid() can do
RefreshOutcomes == {"valid", "invalid", "raise"}

VARIABLES
    update_interval, \* main: update_interval, as returned by get_env_vars()
    shutdown,        \* main: shutdown (asyncio.Event)
    orchPc,          \* where main is: "start", "waiting", "timedout", "joining", "exited"
    elapsed,         \* seconds since the running wait_for() was entered
    exitStatus,      \* <<>> while the process runs, <<code>> once it has ended
    trig,            \* ThermostatController._trigger (asyncio.Event), per thermostat
    available,       \* ThermostatController._available, per thermostat
    pc,              \* per task: "wait", "refresh", "payload", "cancelled", "returned"
    cancelReq,       \* per task: task.cancel() has been called on it
    current,         \* <<>>, or <<task, outcome>> of the task inside its section
    published,       \* per thermostat: payloads written out (line 117) since the last
                     \* trigger round started
    lastOverruns,    \* the thermostats the last check_completion() sweep logged an
                     \* overrun error for
    \* history of the run, read by the properties only
    round,           \* trigger rounds started
    checks,          \* check_completion() sweeps made
    trigCalls,       \* per thermostat: trigger() calls
    pending,         \* per thermostat: trigger() calls since the flag was last clear,
                     \* counted up to CountCap
    started,         \* per thermostat: refreshes started since the flag was last clear
    lastPeriod,      \* seconds from the start of the previous round to the start of this one
    \* the publish channel (MqttPubClient)
    connected,       \* MqttPubClient.connected (asyncio.Event)
    handed,          \* messages handed to the bus client's publish(), in order
    sendFailed,      \* the messages whose send raised inside publish()
    dropped,         \* messages publish() returned from without a send, in order
    nextMsg,         \* id of the next message a caller publishes
    raisedOut,       \* publish() calls that raised to their caller
    lastRc,          \* <<>>, or <<rc>> of the last disconnect event
    retryDelay,      \* delay of the reconnect attempt the channel has scheduled; 0: none
    pubPc,           \* a publish() call taken step by step: "idle", or "checked" (the
                     \* flag was read set, the send is next)
    \* the start-up of main
    env_interval,    \* the UPDATE_INTERVAL setting of the environment
    broker_ok,       \* get_mqtt_vars() returned a configuration (MQTT_BROKER is valid)
    gateway,         \* "unreachable", or the number of thermostats behind the gateway
    startPc,         \* where the start-up is: "config", "discover", "loop", "exit"
    keep_alive,      \* <<>>, or <<mqtt_config.keep_alive>> once main has set it
    thermostats,     \* main: the number of controllers built (len(thermostats))
    created,         \* main: the number of controller tasks created
    sigPending,      \* a signal has arrived while main was running: its handler is due
    mainCancel,      \* cancel() on main's own task: "none", "requested", "delivered"
    \* one controller, on its own: its construction and its payload
    cfg_prefix,      \* mqtt_topic_prefix, as returned by get_mqtt_vars()
    cfg_suffix,      \* mqtt_topic_suffix, as returned by get_mqtt_vars(); "": None
    room_name,       \* thermostat.by_name('room_name').value, a sequence of characters
    pub_topic,       \* <<>>, or <<self.pub_topic>> once __init__ has set it
    ctorResult,      \* "none", or how __init__ ended: "ok", "raised"
    readings,        \* per attribute of the thermostat: "absent", "null" or a value
    timestampOk,     \* last_update(timezone.utc).isoformat() returns
    payload          \* <<>>, or <<data>> once built, or <<"raised">>

orchVars == <<update_interval, shutdown, orchPc, elapsed, exitStatus, trig, available,
              pc, cancelReq, current, published, lastOverruns, round, checks, trigCalls,
              pending, started, lastPeriod>>
chanVars == <<connected, handed, sendFailed, dropped, nextMsg, raisedOut, lastRc, retryDelay,
              pubPc>>
startVars == <<env_interval, broker_ok, gateway, startPc, keep_alive, thermostats, created,
               sigPending, mainCancel>>
unitVars == <<cfg_prefix, cfg_suffix, room_name, pub_topic, ctorResult, readings,
              timestampOk, payload>>
vars == <<orchVars, chanVars, startVars, unitVars>>

----------------------------------------------------------------------------
(* main: the tasks of the task group, one per controller. *)

DoubleTasks == {<<c, k>> : c \in Thermostats, k \in 1..2}

\* tasks = [tg.create_task(thermostat.update_publish_loop()) for thermostat in thermostats]
tasks == {<<c, 1>> : c \in Thermostats}

ctrl(t) == t[1]

----------------------------------------------------------------------------
(* ThermostatController *)

ToggleTrigger(flag) == ~flag

\* trigger(): self._trigger.set(); the new value of the flag
trigger(flag) == TRUE

KeepTrigger(flag) == flag

\* self._trigger.clear() at the end of a cycle; the new value of the flag
ClearTrigger(flag) == FALSE

CheckCompletionInverted(c) == IF trig[c] THEN {} ELSE {c}

\* check_completion(): the thermostats an overrun error is logged for
check_completion(c) == IF trig[c] THEN {c} ELSE {}

\* the value _available takes after the refresh attempt
AvailableAfter(outcome) == outcome = "valid"

SwallowCancelled == "returned"

\* except asyncio.CancelledError: log and raise; how the task ends
OnCancelled == "cancelled"

InitController ==
    /\ trig = [c \in Thermostats |-> FALSE]
    /\ available = [c \in Thermostats |-> FALSE]
    /\ pc = [t \in tasks |-> "wait"]
    /\ cancelReq = [t \in tasks |-> FALSE]
    /\ current = <<>>
    /\ published = [c \in Thermostats |-> 0]
    /\ pending = [c \in Thermostats |-> 0]
    /\ started = [c \in Thermostats |-> 0]

ClearAtWake(flag) == FALSE

\* `await self._trigger.wait()` has returned: the new value of the flag
\* (Event.wait() leaves it set)
FlagAfterWait(flag) == flag

\* `await self._trigger.wait()` returns and async_update() is entered
Wake(t) ==
    /\ current = <<>>
    /\ pc[t] = "wait"
    /\ ~cancelReq[t]
    /\ trig[ctrl(t)]
    /\ trig' = [trig EXCEPT ![ctrl(t)] = FlagAfterWait(@)]
    /\ pc' = [pc EXCEPT ![t] = "refresh"]
    /\ started' = [started EXCEPT ![ctrl(t)] = @ + 1]
    /\ UNCHANGED <<update_interval, shutdown, orchPc, elapsed, exitStatus, available,
                   cancelReq, current, published, lastOverruns, round, checks, trigCalls,
                   pending, lastPeriod>>
    /\ UNCHANGED <<chanVars, startVars, unitVars>>

\* async_update() returns or raises: the try/except of lines 98-106
RefreshReturn(t) ==
    /\ current = <<>>
    /\ pc[t] = "refresh"
    /\ ~cancelReq[t]
    /\ \E outcome \in RefreshOutcomes :
          /\ available' = [available EXCEPT ![ctrl(t)] = AvailableAfter(outcome)]
          /\ current' = <<t, outcome>>
    /\ pc' = [pc EXCEPT ![t] = "payload"]
    /\ UNCHANGED <<update_interval, shutdown, orchPc, elapsed, exitStatus, trig,
                   cancelReq, published, lastOverruns, round, checks, trigCalls,
                   pending, started, lastPeriod>>
    /\ UNCHANGED <<chanVars, startVars, unitVars>>

\* lines 108-118: the payload is built and written out, the flag is cleared,
\* and the loop is back at `await self._trigger.wait()`
PayloadPublish(t) ==
    /\ current # <<>> /\ current[1] = t
    /\ pc[t] = "payload"
    /\ published' = [published EXCEPT ![ctrl(t)] = @ + 1]
    /\ trig' = [trig EXCEPT ![ctrl(t)] = ClearTrigger(@)]
    /\ pending' = [pending EXCEPT ![ctrl(t)] = IF trig'[ctrl(t)] THEN @ ELSE 0]
    /\ started' = [started EXCEPT ![ctrl(t)] = IF trig'[ctrl(t)] THEN @ ELSE 0]
    /\ pc' = [pc EXCEPT ![t] = "wait"]
    /\ current' = <<>>
    /\ UNCHANGED <<update_interval, shutdown, orchPc, elapsed, exitStatus, available,
                   cancelReq, lastOverruns, round, checks, trigCalls, lastPeriod>>
    /\ UNCHANGED <<chanVars, startVars, unitVars>>

\* lines 108-114 raise (by_name(...) has no value, last_update(...) fails):
\* `except Exception` of lines 122-123 logs, and update_publish_loop returns
PayloadRaise(t) ==
    /\ current # <<>> /\ current[1] = t
    /\ pc[t] = "payload"
    /\ pc' = [pc EXCEPT ![t] = "returned"]
    /\ current' = <<>>
    /\ UNCHANGED <<update_interval, shutdown, orchPc, elapsed, exitStatus, trig, available,
                   cancelReq, published, lastOverruns, round, checks, trigCalls,
                   pending, started, lastPeriod>>
    /\ UNCHANGED <<chanVars, startVars, unitVars>>

\* CancelledError is thrown into the task at the await it is suspended in
\* (the trigger wait or async_update); lines 119-121
CancelDeliver(t) ==
    /\ current = <<>>
    /\ cancelReq[t]
    /\ pc[t] \in {"wait", "refresh"}
    /\ pc' = [pc EXCEPT ![t] = OnCancelled]
    /\ UNCHANGED <<update_interval, shutdown, orchPc, elapsed, exitStatus, trig, available,
                   cancelReq, current, published, lastOverruns, round, checks, trigCalls,
                   pending, started, lastPeriod>>
    /\ UNCHANGED <<chanVars, startVars, unitVars>>

----------------------------------------------------------------------------
(* main: the trigger loop *)

SkipStragglers == {c \in Thermostats : ~trig[c]}

\* `for thermostat in thermostats: thermostat.trigger()`
TriggerTargets == Thermostats

StragglersDone == elapsed >= update_interval /\ \A c \in Thermostats : ~trig[c]

\* wait_for(..., timeout=update_interval): the timeout has run out
TimeoutElapsed == elapsed >= update_interval

ChecksAlways(timedOut) == Thermostats

\* the controllers check_completion() is called on when wait_for() ends:
\* all of them under `except asyncio.TimeoutError`, none when it returns
WakeChecks(timedOut) == IF timedOut THEN Thermostats ELSE {}

\* `for task in tasks: task.cancel()`
CancelTargets == tasks

Min(a, b) == IF a < b THEN a ELSE b

InitMain ==
    /\ update_interval \in Intervals
    /\ shutdown = FALSE
    /\ orchPc = "start"
    /\ elapsed = 0
    /\ exitStatus = <<>>
    /\ lastOverruns = {}
    /\ round = 0
    /\ checks = 0
    /\ trigCalls = [c \in Thermostats |-> 0]
    /\ lastPeriod = 0

\* lines 167-173: every controller is triggered and wait_for() is entered
TriggerRound ==
    /\ trig' = [c \in Thermostats |->
                  IF c \in TriggerTargets THEN trigger(trig[c]) ELSE trig[c]]
    /\ trigCalls' = [c \in Thermostats |->
                       IF c \in TriggerTargets THEN trigCalls[c] + 1 ELSE trigCalls[c]]
    /\ pending' = [c \in Thermostats |->
                     IF c \in TriggerTargets THEN Min(pending[c] + 1, CountCap)
                                             ELSE pending[c]]
    /\ published' = [c \in Thermostats |-> 0]
    /\ round' = round + 1
    /\ lastPeriod' = elapsed
    /\ elapsed' = 0
    /\ orchPc' = "waiting"
    /\ UNCHANGED <<cancelReq, exitStatus>>

\* lines 180-181, then the task group waits for its tasks
CancelAll ==
    /\ cancelReq' = [t \in tasks |-> t \in CancelTargets]
    /\ orchPc' = "joining"
    /\ UNCHANGED <<trig, trigCalls, pending, published, round, lastPeriod, elapsed,
                   exitStatus>>

TriggerAgain == TriggerRound

\* `while not shutdown.is_set()`: one more round, or out of the loop
LoopTest == IF shutdown THEN CancelAll ELSE TriggerRound

\* the checks made when wait_for() has ended, by timeout or not
RunChecks(timedOut) ==
    /\ lastOverruns' = IF WakeChecks(timedOut) = {}
                         THEN lastOverruns
                         ELSE UNION {check_completion(c) : c \in WakeChecks(timedOut)}
    /\ checks' = checks + (IF WakeChecks(timedOut) # {} THEN 1 ELSE 0)

\* main runs from its start to the first wait_for() without suspending
OrchStart ==
    /\ orchPc = "start"
    /\ current = <<>>
    /\ LoopTest
    /\ UNCHANGED <<update_interval, shutdown, available, pc, current, lastOverruns,
                   checks, started>>
    /\ UNCHANGED <<chanVars, startVars, unitVars>>

\* the signal handler runs (SIGTERM or SIGINT): shutdown.set()
Signal ==
    /\ current = <<>>
    /\ orchPc \in {"waiting", "timedout"}
    /\ ~shutdown
    /\ shutdown' = TRUE
    /\ UNCHANGED <<update_interval, orchPc, elapsed, exitStatus, trig, available, pc,
                   cancelReq, current, published, lastOverruns, round, checks, trigCalls,
                   pending, started, lastPeriod>>
    /\ UNCHANGED <<chanVars, startVars, unitVars>>

\* SIGTERM or SIGINT arrives while main runs from its start to the first
\* wait_for(): the handler is a callback of the event loop and is not run
\* before main suspends
SignalArrives ==
    /\ orchPc = "start"
    /\ ~sigPending
    /\ sigPending' = TRUE
    /\ UNCHANGED <<env_interval, broker_ok, gateway, startPc, keep_alive, thermostats,
                   created, mainCancel>>
    /\ UNCHANGED <<orchVars, chanVars, unitVars>>

\* the event loop runs the handler of that signal: shutdown.set()
SignalHandler ==
    /\ current = <<>>
    /\ sigPending
    /\ orchPc \in {"waiting", "timedout"}
    /\ shutdown' = TRUE
    /\ sigPending' = FALSE
    /\ UNCHANGED <<env_interval, broker_ok, gateway, startPc, keep_alive, thermostats,
                   created, mainCancel>>
    /\ UNCHANGED <<update_interval, orchPc, elapsed, exitStatus, trig, available, pc,
                   cancelReq, current, published, lastOverruns, round, checks, trigCalls,
                   pending, started, lastPeriod>>
    /\ UNCHANGED <<chanVars, unitVars>>

\* shutdown.wait() has completed: wait_for() returns, no exception
ShutdownWake ==
    /\ current = <<>>
    /\ orchPc = "waiting"
    /\ shutdown
    /\ RunChecks(FALSE)
    /\ LoopTest
    /\ UNCHANGED <<update_interval, shutdown, available, pc, current, started>>
    /\ UNCHANGED <<chanVars, startVars, unitVars>>

\* the timeout of wait_for() runs out before shutdown is set
TimerFires ==
    /\ current = <<>>
    /\ orchPc = "waiting"
    /\ ~shutdown
    /\ TimeoutElapsed
    /\ round < MaxRounds
    /\ orchPc' = "timedout"
    /\ UNCHANGED <<update_interval, shutdown, elapsed, exitStatus, trig, available, pc,
                   cancelReq, current, published, lastOverruns, round, checks, trigCalls,
                   pending, started, lastPeriod>>
    /\ UNCHANGED <<chanVars, startVars, unitVars>>

\* main resumes with asyncio.TimeoutError: lines 174-177, then the loop test
TimeoutResume ==
    /\ current = <<>>
    /\ orchPc = "timedout"
    /\ RunChecks(TRUE)
    /\ LoopTest
    /\ UNCHANGED <<update_interval, shutdown, available, pc, current, started>>
    /\ UNCHANGED <<chanVars, startVars, unitVars>>

\* every task of the group has ended: lines 182-191, and the process ends
OrchJoin ==
    /\ current = <<>>
    /\ orchPc = "joining"
    /\ \A t \in tasks : pc[t] \in {"cancelled", "returned"}
    /\ orchPc' = "exited"
    /\ exitStatus' = <<0>>
    /\ UNCHANGED <<update_interval, shutdown, elapsed, trig, available, pc, cancelReq,
                   current, published, lastOverruns, round, checks, trigCalls, pending,
                   started, lastPeriod>>
    /\ UNCHANGED <<chanVars, startVars, unitVars>>

\* a task that can run now: time does not pass before it has
TaskReady == \E t \in tasks : pc[t] = "wait" /\ ~cancelReq[t] /\ trig[ctrl(t)]

\* time passes while main is suspended in wait_for() and nothing is ready:
\* to the next instant looked at, or to the deadline if that comes first
Tick ==
    /\ current = <<>>
    /\ orchPc = "waiting"
    /\ ~shutdown
    /\ ~TimeoutElapsed
    /\ ~TaskReady
    /\ ~sigPending
    /\ mainCancel # "requested"
    /\ elapsed <= update_interval
    /\ elapsed' = IF elapsed < update_interval
                    THEN Min(elapsed + TickSeconds, update_interval)
                    ELSE elapsed + TickSeconds
    /\ UNCHANGED <<update_interval, shutdown, orchPc, exitStatus, trig, available, pc,
                   cancelReq, current, published, lastOverruns, round, checks, trigCalls,
                   pending, started, lastPeriod>>
    /\ UNCHANGED <<chanVars, startVars, unitVars>>

----------------------------------------------------------------------------
(* The draft of the program, src/test.py: its update_publish_loop has no   *)
(* `except Exception`, so an exception of the payload step ends the task   *)
(* with that exception, and the task group reacts to it.  Its main has the *)
(* same trigger loop (lines 123-136).                                      *)

\* asyncio.TaskGroup, when a task of it has ended with an exception: it
\* calls cancel() on every task of the group that has not ended
AbortTargets(t) == {u \in tasks : u # t /\ pc[u] \notin {"cancelled", "failed"}}

\* `except asyncio.CancelledError: pass` inside the while loop (test.py
\* lines 133-134, src/uhome2mqtt.py lines 178-179): the next statement is
\* the loop test
AfterCancelled == LoopTest

\* test.py lines 82-83 raise: the task ends with the exception; the task
\* group cancels its other tasks and, once, the task of main
PayloadFail(t) ==
    /\ current # <<>> /\ current[1] = t
    /\ pc[t] = "payload"
    /\ pc' = [pc EXCEPT ![t] = "failed"]
    /\ current' = <<>>
    /\ cancelReq' = [u \in tasks |-> cancelReq[u] \/ u \in AbortTargets(t)]
    /\ mainCancel' = IF mainCancel = "none" /\ orchPc \in {"waiting", "timedout"}
                       THEN "requested" ELSE mainCancel
    /\ UNCHANGED <<update_interval, shutdown, orchPc, elapsed, exitStatus, trig, available,
                   published, lastOverruns, round, checks, trigCalls, pending, started,
                   lastPeriod>>
    /\ UNCHANGED <<env_interval, broker_ok, gateway, startPc, keep_alive, thermostats,
                   created, sigPending>>
    /\ UNCHANGED <<chanVars, unitVars>>

\* CancelledError is thrown into main at `await asyncio.wait_for(...)`
OrchCancelled ==
    /\ current = <<>>
    /\ orchPc = "waiting"
    /\ mainCancel = "requested"
    /\ mainCancel' = "delivered"
    /\ RunChecks(FALSE)
    /\ AfterCancelled
    /\ UNCHANGED <<update_interval, shutdown, available, pc, current, started>>
    /\ UNCHANGED <<env_interval, broker_ok, gateway, startPc, keep_alive, thermostats,
                   created, sigPending>>
    /\ UNCHANGED <<chanVars, unitVars>>

\* every task of the group has ended: the group raises the exceptions of
\* its tasks, which test.py's `except asyncio.CancelledError` does not
\* catch, or main runs to its end
DraftJoin ==
    /\ current = <<>>
    /\ orchPc = "joining"
    /\ \A t \in tasks : pc[t] \in {"cancelled", "failed"}
    /\ orchPc' = "exited"
    /\ exitStatus' = IF \E t \in tasks : pc[t] = "failed" THEN <<1>> ELSE <<0>>
    /\ UNCHANGED <<update_interval, shutdown, elapsed, trig, available, pc, cancelReq,
                   current, published, lastOverruns, round, checks, trigCalls, pending,
                   started, lastPeriod>>
    /\ UNCHANGED <<chanVars, startVars, unitVars>>

DraftNext ==
    \/ OrchStart
    \/ Signal
    \/ SignalArrives
    \/ SignalHandler
    \/ ShutdownWake
    \/ TimerFires
    \/ TimeoutResume
    \/ OrchCancelled
    \/ DraftJoin
    \/ Tick
    \/ \E t \in tasks : Wake(t)
    \/ \E t \in tasks : RefreshReturn(t)
    \/ \E t \in tasks : PayloadPublish(t)
    \/ \E t \in tasks : PayloadFail(t)
    \/ \E t \in tasks : CancelDeliver(t)

----------------------------------------------------------------------------
(* MqttPubClient: the publish channel of src/mqttclient.py.  main of       *)
(* src/uhome2mqtt.py builds no channel (mqttc = None) and the loop writes  *)
(* its payload out itself, so the channel is driven here by its own        *)
(* callers: the bus client's connect and disconnect events and publish().  *)

\* reason codes of a connect event: accepted, server unavailable, refused
ConnectRcs == {0, 3, 5}

\* reason codes of a disconnect event: asked for, unexpected
DisconnectRcs == {0, 1}

Range(q) == {q[i] : i \in 1..Len(q)}

\* on_connect: the new value of the connected flag
ConnectedAfterConnect(rc) == IF rc = 0 THEN TRUE ELSE connected

\* on_connect: the messages it hands to the bus client (it sends nothing)
SentOnConnect(rc) == <<>>

\* on_disconnect: the delay of the reconnect attempt it schedules (it
\* schedules none: it clears the flag and logs)
DelayAfterDisconnect(rc) == retryDelay

AlwaysSend == TRUE

\* publish(): `if self.connected.is_set()`
PublishGate == connected

\* publish(): whether an exception of the send leaves publish(); the
\* try/except Exception around self._mqttc.publish() catches it
SendErrorRaised(sendOk) == FALSE

InitChannel ==
    /\ connected = FALSE
    /\ handed = <<>>
    /\ sendFailed = {}
    /\ dropped = <<>>
    /\ nextMsg = 1
    /\ raisedOut = 0
    /\ lastRc = <<>>
    /\ retryDelay = 0
    /\ pubPc = "idle"

\* lines 50-63
on_connect ==
    /\ \E rc \in ConnectRcs :
          /\ connected' = ConnectedAfterConnect(rc)
          /\ handed' = handed \o SentOnConnect(rc)
    /\ UNCHANGED <<sendFailed, dropped, nextMsg, raisedOut, lastRc, retryDelay, pubPc>>
    /\ UNCHANGED <<orchVars, startVars, unitVars>>

\* lines 67-73
on_disconnect ==
    /\ \E rc \in DisconnectRcs :
          /\ connected' = FALSE
          /\ lastRc' = <<rc>>
          /\ retryDelay' = DelayAfterDisconnect(rc)
    /\ UNCHANGED <<handed, sendFailed, dropped, nextMsg, raisedOut, pubPc>>
    /\ UNCHANGED <<orchVars, startVars, unitVars>>

\* lines 76-82: publish(topic, message) of message number nextMsg; the bus
\* client's publish() returns (sendOk) or raises
publish ==
    /\ nextMsg <= MaxMessages
    /\ nextMsg' = nextMsg + 1
    /\ \E sendOk \in BOOLEAN :
          IF PublishGate
            THEN /\ handed' = Append(handed, nextMsg)
                 /\ sendFailed' = IF sendOk THEN sendFailed ELSE sendFailed \cup {nextMsg}
                 /\ raisedOut' = raisedOut + (IF SendErrorRaised(sendOk) THEN 1 ELSE 0)
                 /\ UNCHANGED dropped
            ELSE /\ dropped' = Append(dropped, nextMsg)
                 /\ UNCHANGED <<handed, sendFailed, raisedOut>>
    /\ UNCHANGED <<connected, lastRc, retryDelay, pubPc>>
    /\ UNCHANGED <<orchVars, startVars, unitVars>>

ChannelNext ==
    \/ on_connect
    \/ on_disconnect
    \/ publish

\* The bus client delivers its connect and disconnect events on its own
\* network thread (loop_start(), line 40), so an event can run between two
\* statements of a publish() call: the call in its two steps.

\* line 77, `if self.connected.is_set():` of the call for message nextMsg
publish_check ==
    /\ pubPc = "idle"
    /\ nextMsg <= MaxMessages
    /\ IF PublishGate
         THEN /\ pubPc' = "checked"
              /\ UNCHANGED <<dropped, nextMsg>>
         ELSE /\ dropped' = Append(dropped, nextMsg)
              /\ nextMsg' = nextMsg + 1
              /\ UNCHANGED pubPc
    /\ UNCHANGED <<connected, handed, sendFailed, raisedOut, lastRc, retryDelay>>
    /\ UNCHANGED <<orchVars, startVars, unitVars>>

\* lines 78-82, the send under try/except, and the call returns
publish_send ==
    /\ pubPc = "checked"
    /\ pubPc' = "idle"
    /\ nextMsg' = nextMsg + 1
    /\ handed' = Append(handed, nextMsg)
    /\ \E sendOk \in BOOLEAN :
          /\ sendFailed' = IF sendOk THEN sendFailed ELSE sendFailed \cup {nextMsg}
          /\ raisedOut' = raisedOut + (IF SendErrorRaised(sendOk) THEN 1 ELSE 0)
    /\ UNCHANGED <<connected, dropped, lastRc, retryDelay>>
    /\ UNCHANGED <<orchVars, startVars, unitVars>>

ThreadNext ==
    \/ on_connect
    \/ on_disconnect
    \/ publish_check
    \/ publish_send

----------------------------------------------------------------------------
(* The start-up of main, src/uhome2mqtt.py lines 147-165: the settings are *)
(* read, the keep-alive is set, the gateway client is built and its        *)
(* thermostat list is read.                                                *)

\* the integers an UPDATE_INTERVAL setting is drawn from
EnvNumbers ==
    ((MIN_UPDATE_INTERVAL - EnvSpan)..(MIN_UPDATE_INTERVAL + EnvSpan))
        \cup {-1, 0, DEFAULT_UPDATE_INTERVAL}

\* the UPDATE_INTERVAL setting: unset, or a text that is an integer literal
\* (val), a decimal literal (val + 1/2), or no number at all
EnvSettings ==
    {[kind |-> "unset", val |-> 0], [kind |-> "text", val |-> 0]}
        \cup [kind : {"int", "decimal"}, val : EnvNumbers]

\* int(text): <<n>>, or <<>> when it raises ValueError; only an integer
\* literal is parsed
ParseInt(e) == IF e.kind = "int" THEN <<e.val>> ELSE <<>>

get_env_vars_unfloored(e) ==
    LET parsed == IF e.kind = "unset" THEN <<DEFAULT_UPDATE_INTERVAL>> ELSE ParseInt(e)
    IN IF parsed = <<>> THEN DEFAULT_UPDATE_INTERVAL ELSE parsed[1]

\* get_env_vars(): the update_interval it returns
get_env_vars(e) ==
    LET parsed == IF e.kind = "unset" THEN <<DEFAULT_UPDATE_INTERVAL>> ELSE ParseInt(e)
        update == IF parsed = <<>> THEN DEFAULT_UPDATE_INTERVAL ELSE parsed[1]
    IN IF update < MIN_UPDATE_INTERVAL THEN MIN_UPDATE_INTERVAL ELSE update

KeepAliveEqual(interval) == interval

\* mqtt_config.keep_alive = update_interval + 5; MqttPubClient.__init__
\* passes it on as the keepalive of connect_async()
KeepAlive(interval) == interval + KEEP_ALIVE_MARGIN

\* UponorClient.__init__ creates the task of rescan() and returns; main
\* reads uhome.thermostats without an await in between, so the task has
\* not run when the list is read
RescanDoneAtRead == FALSE

\* len(uhome.thermostats) as main reads it
ThermostatsAtRead ==
    IF RescanDoneAtRead /\ gateway.reachable THEN gateway.devices ELSE 0

NeverExit(found) == FALSE

\* `if len(uhome.thermostats) == 0:` the exit of lines 159-161
NoThermostats(found) == found = 0

\* how ThermostatController.__init__ ends: `self.mqttc = mqttc` names
\* nothing that is bound (the parameter is commented out), the NameError is
\* logged and raised again
CtorOutcome == "raised"

StartInit ==
    /\ env_interval \in EnvSettings
    /\ broker_ok \in BOOLEAN
    /\ gateway \in [reachable : BOOLEAN, devices : 0..MaxDevices]
    /\ startPc = "config"
    /\ keep_alive = <<>>
    /\ thermostats = 0
    /\ created = 0
    /\ sigPending = FALSE
    /\ mainCancel = "none"

\* lines 147-154; without a configuration of the bus main ends with status 1
get_config ==
    /\ startPc = "config"
    /\ update_interval' = get_env_vars(env_interval)
    /\ IF broker_ok
         THEN /\ keep_alive' = <<KeepAlive(update_interval')>>
              /\ startPc' = "discover"
              /\ UNCHANGED exitStatus
         ELSE /\ startPc' = "exit"
              /\ exitStatus' = <<1>>
              /\ UNCHANGED keep_alive
    /\ UNCHANGED <<env_interval, broker_ok, gateway, thermostats, created, sigPending,
                   mainCancel>>
    /\ UNCHANGED <<shutdown, orchPc, elapsed, trig, available, pc, cancelReq, current,
                   published, lastOverruns, round, checks, trigCalls, pending, started,
                   lastPeriod>>
    /\ UNCHANGED <<chanVars, unitVars>>

\* lines 155-165 and 184-186: the client is built, the list is read, the
\* controllers and their tasks are made
discover ==
    /\ startPc = "discover"
    /\ LET found == ThermostatsAtRead
       IN IF NoThermostats(found) \/ (found > 0 /\ CtorOutcome = "raised")
            THEN /\ startPc' = "exit"
                 /\ exitStatus' = <<1>>
                 /\ UNCHANGED <<thermostats, created>>
            ELSE /\ startPc' = "loop"
                 /\ thermostats' = found
                 /\ created' = found
                 /\ UNCHANGED exitStatus
    /\ UNCHANGED <<env_interval, broker_ok, gateway, keep_alive, sigPending, mainCancel>>
    /\ UNCHANGED <<update_interval, shutdown, orchPc, elapsed, trig, available, pc,
                   cancelReq, current, published, lastOverruns, round, checks, trigCalls,
                   pending, started, lastPeriod>>
    /\ UNCHANGED <<chanVars, unitVars>>

StartNext ==
    \/ get_config
    \/ discover

\* the start-up as the loop's specifications take it to have ended
InitStarted ==
    /\ env_interval = [kind |-> "int", val |-> update_interval]
    /\ broker_ok = TRUE
    /\ gateway = [reachable |-> TRUE, devices |-> NumThermostats]
    /\ startPc = "loop"
    /\ keep_alive = <<KeepAlive(update_interval)>>
    /\ thermostats = NumThermostats
    /\ created = NumThermostats
    /\ sigPending = FALSE
    /\ mainCancel = "none"

----------------------------------------------------------------------------
(* One controller on its own: ThermostatController.__init__ on a           *)
(* thermostat, and the payload of one cycle of update_publish_loop built   *)
(* from the thermostat's attributes.                                       *)

\* the topic prefix and suffix get_mqtt_vars() returns; "": no suffix
Prefixes == {"smatrix", "uhome"}
Suffixes == {"", "climate", "thermostat"}

\* the characters of a room name: an upper-case letter, a lower-case
\* letter, a space
Chars == {"L", "r", " "}

RECURSIVE SeqsUpTo(_)
SeqsUpTo(n) ==
    IF n = 0 THEN {<<>>}
    ELSE LET shorter == SeqsUpTo(n - 1)
         IN shorter \cup {Append(q, ch) : q \in shorter, ch \in Chars}

RoomNames == SeqsUpTo(MaxNameLen)

\* str.lower(), one character
lower(ch) == IF ch = "L" THEN "l" ELSE ch

\* str.replace(' ', '_'), one character
replace(ch) == IF ch = " " THEN "_" ELSE ch

\* self.name: room_name.lower().replace(' ', '_')
ControllerName(name) == [i \in 1..Len(name) |-> replace(lower(name[i]))]

\* the f-string of line 63, the topic as a sequence of its parts
Topic(prefix, name, suffix) ==
    IF suffix # "" THEN <<prefix, "/">> \o name \o <<"/", suffix>>
                   ELSE <<prefix, "/">> \o name

\* lines 53-54: the prefix and the suffix __init__ builds the topic from
mqtt_topic_prefix == "uhome"
mqtt_topic_suffix == "thermostat"

\* the attributes of key_mapping, lines 85-89, and the payload key of each
key_mapping ==
    [rh_value |-> "humidity", room_temperature |-> "temperature",
     room_setpoint |-> "tempsetpoint"]

Attributes == DOMAIN key_mapping

\* what the thermostat holds for an attribute: no such attribute, an
\* attribute whose value is None, an attribute with a value
ReadingValues == {"absent", "null", "v1", "v2"}

\* by_name(input_key).value raises when there is no such attribute
ReadRaises(r) == \E a \in Attributes : r[a] = "absent"

\* `if value is not None:` of line 112
Emitted(value) == value \notin {"absent", "null"}

\* lines 109-114: data, as the set of its <<key, value>> pairs
Data(r) ==
    {<<key_mapping[a], r[a]>> : a \in {b \in Attributes : Emitted(r[b])}}
        \cup {<<"time", "isoformat">>}

\* lines 109-117: the payload of a cycle, or the exception that leaves the
\* while loop
BuildPayload(r, tsOk) ==
    IF ReadRaises(r) \/ ~tsOk
      THEN [state |-> "raised", data |-> {}]
      ELSE [state |-> "built", data |-> Data(r)]

UnitInit ==
    /\ cfg_prefix \in Prefixes
    /\ cfg_suffix \in Suffixes
    /\ room_name \in RoomNames
    /\ pub_topic = <<>>
    /\ ctorResult = "none"
    /\ readings \in [Attributes -> ReadingValues]
    /\ timestampOk \in BOOLEAN
    /\ payload = [state |-> "none", data |-> {}]

\* ThermostatController.__init__, lines 51-70
construct ==
    /\ ctorResult = "none"
    /\ pub_topic' = <<Topic(mqtt_topic_prefix, ControllerName(room_name), mqtt_topic_suffix)>>
    /\ ctorResult' = CtorOutcome
    /\ UNCHANGED <<cfg_prefix, cfg_suffix, room_name, readings, timestampOk, payload>>
    /\ UNCHANGED <<orchVars, chanVars, startVars>>

\* update_publish_loop, lines 109-117, once
build_payload ==
    /\ payload.state = "none"
    /\ payload' = BuildPayload(readings, timestampOk)
    /\ UNCHANGED <<cfg_prefix, cfg_suffix, room_name, readings, timestampOk, pub_topic,
                   ctorResult>>
    /\ UNCHANGED <<orchVars, chanVars, startVars>>

UnitNext ==
    \/ construct
    \/ build_payload

\* no controller is looked at on its own
InitUnitIdle ==
    /\ cfg_prefix = "smatrix"
    /\ cfg_suffix = "climate"
    /\ room_name = <<>>
    /\ pub_topic = <<>>
    /\ ctorResult = "none"
    /\ readings = [a \in Attributes |-> "null"]
    /\ timestampOk = TRUE
    /\ payload = [state |-> "none", data |-> {}]

----------------------------------------------------------------------------
\* The state in which main has entered the task group: one controller per
\* discovered thermostat is built, their tasks are created, nothing has run
\* yet.  The start-up before it (configuration, discovery, construction of
\* the controllers) is not part of these specifications.
Init == InitMain /\ InitController /\ InitChannel /\ InitStarted /\ InitUnitIdle

\* main from its first line: nothing is configured, no controller exists
InitStartUp ==
    /\ StartInit
    /\ update_interval = 0
    /\ shutdown = FALSE
    /\ orchPc = "start"
    /\ elapsed = 0
    /\ exitStatus = <<>>
    /\ lastOverruns = {}
    /\ round = 0
    /\ checks = 0
    /\ trigCalls = [c \in Thermostats |-> 0]
    /\ lastPeriod = 0
    /\ InitController
    /\ InitChannel
    /\ InitUnitIdle

\* the start-up alone
StartSpec == InitStartUp /\ [][StartNext]_vars

InitUnit == InitMain /\ InitController /\ InitChannel /\ InitStarted /\ UnitInit

\* one controller's construction and payload, over its inputs
UnitSpec == InitUnit /\ [][UnitNext]_vars

\* the channel alone, under its callers
ChannelSpec == Init /\ [][ChannelNext]_vars

\* the channel with the network thread running between the steps of publish()
ThreadSpec == Init /\ [][ThreadNext]_vars

Next ==
    \/ OrchStart
    \/ Signal
    \/ SignalArrives
    \/ SignalHandler
    \/ ShutdownWake
    \/ TimerFires
    \/ TimeoutResume
    \/ OrchJoin
    \/ Tick
    \/ \E t \in tasks : Wake(t)
    \/ \E t \in tasks : RefreshReturn(t)
    \/ \E t \in tasks : PayloadPublish(t)
    \/ \E t \in tasks : PayloadRaise(t)
    \/ \E t \in tasks : CancelDeliver(t)

Spec == Init /\ [][Next]_vars

\* the draft, src/test.py, from the same state
DraftSpec == Init /\ [][DraftNext]_vars

----------------------------------------------------------------------------
(* Properties *)

\* the tasks of thermostat c that are inside a refresh-then-publish cycle
InFlight(c) == {t \in tasks : ctrl(t) = c /\ pc[t] \in {"refresh", "payload"}}

\* the step calls trigger() on thermostat c
Triggered(c) == trigCalls'[c] > trigCalls[c]

\* C1: trigger coalescing.  A trigger() on a flag that is already set leaves
\* the flag set and changes nothing else of the controller (no refresh is
\* started by it, no task moves); however many trigger() calls arrive before
\* the loop clears the flag, at most one refresh is started and one payload
\* written before the clear, and the clear ends exactly one refresh and one
\* payload: two or more triggers give the one cycle a single trigger gives.
C1_TriggerCoalescing ==
    [][\A c \in Thermostats :
         /\ (trig[c] /\ Triggered(c)) =>
               /\ trig'[c]
               /\ started'[c] = started[c]
               /\ \A t \in tasks : ctrl(t) = c => pc'[t] = pc[t]
         /\ started'[c] <= 1
         /\ published'[c] <= 1
         /\ (trig[c] /\ ~trig'[c]) =>
               /\ started[c] = 1
               /\ published'[c] = published[c] + 1
               /\ started'[c] = 0 /\ pending'[c] = 0]_vars

\* a cycle is about to clear a flag that trigger() was called on twice or more
C1_Witness ==
    \E t \in tasks :
        /\ pc[t] = "payload"
        /\ pending[ctrl(t)] >= 2
        /\ started[ctrl(t)] = 1

\* C2: at most one cycle in flight.  For every thermostat at most one task
\* is inside a refresh-then-publish cycle, the flag is set for as long as
\* the cycle runs, and a refresh is started only when no cycle of that
\* thermostat is open (the previous one has cleared the flag), whatever
\* trigger rounds happen during a slow refresh.
C2_AtMostOneInFlight ==
    [][\A c \in Thermostats :
         /\ Cardinality(InFlight(c)) <= 1
         /\ Cardinality(InFlight(c)') <= 1
         /\ (InFlight(c)' # {} => trig'[c])
         /\ \A t \in tasks :
               (ctrl(t) = c /\ pc[t] = "wait" /\ pc'[t] = "refresh") =>
                   (InFlight(c) = {} /\ started[c] = 0)]_vars

\* a refresh that has run through a whole interval: an overrun was logged
\* for it, the next round has triggered it again, and it is still running
C2_Witness ==
    \E t \in tasks :
        /\ pc[t] = "refresh"
        /\ ctrl(t) \in lastOverruns
        /\ pending[ctrl(t)] >= 2
        /\ round >= 2

\* C3: a check_completion() sweep logs an overrun for exactly the
\* thermostats whose trigger flag is set when it runs, and for no other.
C3_OverrunIffFlagSet ==
    [][checks' # checks => lastOverruns' = {c \in Thermostats : trig[c]}]_vars

\* a sweep that logged an overrun for one thermostat and none for another
C3_Witness ==
    /\ checks >= 1
    /\ lastOverruns # {}
    /\ lastOverruns # Thermostats

\* C4: the round protocol.  Whenever main is in (or has just timed out of)
\* the interval wait, every controller has been triggered once per round
\* started; and when main resumes from a timeout with shutdown not set, it
\* sweeps check_completion() over every controller and starts a new round
\* that triggers every controller, whether or not a flag was still set.
C4_RoundProtocol ==
    [][/\ orchPc' \in {"waiting", "timedout"} =>
             (round' >= 1 /\ \A c \in Thermostats : trigCalls'[c] = round')
       /\ (orchPc = "timedout" /\ ~shutdown /\ orchPc' # orchPc) =>
             /\ checks' = checks + 1
             /\ lastOverruns' = {c \in Thermostats : trig[c]}
             /\ round' = round + 1
             /\ orchPc' = "waiting"
             /\ \A c \in Thermostats : Triggered(c) /\ trig'[c]]_vars

\* a new round has just been started although the sweep found a straggler
C4_Witness ==
    /\ orchPc = "waiting"
    /\ elapsed = 0
    /\ round >= 2
    /\ lastOverruns # {}

C6_Shutdown ==
    [][/\ (orchPc = "waiting" /\ shutdown /\ orchPc' # orchPc) =>
             /\ checks' = checks
             /\ round' = round
             /\ orchPc' = "joining"
             /\ \A t \in tasks : cancelReq'[t]
       /\ orchPc' = "exited" =>
             /\ exitStatus' = <<0>>
             /\ \A t \in tasks : cancelReq'[t] /\ pc'[t] \in {"cancelled", "returned"}
       /\ \A t \in tasks : cancelReq[t] =>
             /\ published'[ctrl(t)] = published[ctrl(t)]
             /\ started'[ctrl(t)] = started[ctrl(t)]]_vars

\* the process has ended with status 0 after a signal in the wait, one task
\* cancelled in its refresh and one at the trigger wait
C6_Witness ==
    /\ orchPc = "exited"
    /\ exitStatus = <<0>>
    /\ \E t \in tasks : pc[t] = "cancelled" /\ started[ctrl(t)] = 1
    /\ \E t \in tasks : pc[t] = "cancelled" /\ ~trig[ctrl(t)]
    /\ checks < round

\* C7: a failed refresh is not fatal.  When the refresh of a cycle has
\* raised, the device is unavailable and the loop finishes the cycle: it
\* clears the flag and is back at the trigger wait.
C7_FailedRefreshNotFatal ==
    [][\A t \in tasks :
         (current = <<t, "raise">> /\ pc'[t] # pc[t]) =>
             /\ ~available'[ctrl(t)]
             /\ ~trig'[ctrl(t)]
             /\ pc'[t] = "wait"]_vars

\* C8: cancellation is not swallowed.  A task cancel() was called on ends
\* cancelled at the await it is suspended in, the trigger wait or the
\* refresh: it starts no refresh and writes no payload after the call, and
\* a cancelled task stays cancelled.
C8_CancellationPropagates ==
    [][\A t \in tasks :
         /\ (cancelReq[t] /\ pc[t] \in {"wait", "refresh"} /\ pc'[t] # pc[t]) =>
               pc'[t] = "cancelled"
         /\ cancelReq[t] =>
               /\ published'[ctrl(t)] = published[ctrl(t)]
               /\ started'[ctrl(t)] = started[ctrl(t)]
         /\ pc[t] = "cancelled" => pc'[t] = "cancelled"]_vars

\* one task was cancelled at the trigger wait and another during its refresh
C8_Witness ==
    \E t, u \in tasks :
        /\ pc[t] = "cancelled" /\ started[ctrl(t)] = 0
        /\ pc[u] = "cancelled" /\ started[ctrl(u)] = 1

\* C9: publish() is best effort and never raises.  A publish() while the
\* connected flag is clear drops the message: nothing is handed to the bus
\* client, then or later (no event and no later publish() sends a dropped
\* message).  A publish() while the flag is set hands the message to the
\* bus client.  Either way, and also when the send raises, publish()
\* returns to its caller without raising.
C9_PublishBestEffort ==
    [][/\ nextMsg' # nextMsg =>
             /\ raisedOut' = raisedOut
             /\ IF connected
                  THEN handed' = Append(handed, nextMsg) /\ dropped' = dropped
                  ELSE dropped' = Append(dropped, nextMsg) /\ handed' = handed
       /\ nextMsg' = nextMsg => (handed' = handed /\ dropped' = dropped)
       /\ Range(dropped') \cap Range(handed') = {}
       /\ raisedOut' = 0]_vars

\* a message was dropped while disconnected, a later one was handed over
\* after the reconnect, and a send has raised inside publish()
C9_Witness ==
    /\ connected
    /\ sendFailed # {}
    /\ \E i \in 1..Len(dropped), j \in 1..Len(handed) : dropped[i] < handed[j]

\* C10: reconnect with backoff.  After an unexpected disconnect (reason
\* code not 0) the channel has a reconnect attempt scheduled, after a
\* positive delay (the doubled delay, capped, plus jitter).
C10_ReconnectBackoff ==
    (lastRc # <<>> /\ lastRc[1] # 0 /\ ~connected) => retryDelay > 0

\* C11: the payload of a cycle.  Whatever the thermostat holds for the three
\* attributes (a value, a null value, or no such attribute), the cycle is not
\* stopped: a payload is built; it has the key humidity exactly when rh_value
\* is present and not null, temperature exactly when room_temperature is,
\* tempsetpoint exactly when room_setpoint is, each with the value read; no
\* key is emitted with a null; and it always has the key time.
C11_PayloadMapping ==
    (payload.state # "none" /\ timestampOk) =>
        /\ payload.state = "built"
        /\ \A a \in Attributes :
              /\ (\E pair \in payload.data : pair[1] = key_mapping[a])
                    <=> readings[a] \notin {"absent", "null"}
              /\ \A pair \in payload.data :
                    pair[1] = key_mapping[a] => pair[2] = readings[a]
        /\ \A pair \in payload.data : pair[2] \notin {"absent", "null"}
        /\ \E pair \in payload.data : pair[1] = "time"

\* C12: the topic of a controller is the prefix get_mqtt_vars() returned,
\* the room name in lower case with every space replaced by an underscore,
\* and the suffix get_mqtt_vars() returned, joined by "/" (prefix and name
\* alone when there is no suffix); it is set by the construction and does
\* not change afterwards.
C12_TopicFromConfiguration ==
    ctorResult # "none" =>
        pub_topic = <<Topic(cfg_prefix, ControllerName(room_name), cfg_suffix)>>

\* the UPDATE_INTERVAL setting is a number
IsNumber(e) == e.kind \in {"int", "decimal"}

\* C13 as stated: the effective interval is the default when the setting is
\* unset or is no number, is never below the floor, and equals the setting
\* when the setting is a number at or above the floor (a decimal setting
\* val + 1/2 equals no integer interval).
C13_AsStated ==
    startPc # "config" =>
        /\ ~IsNumber(env_interval) => update_interval = DEFAULT_UPDATE_INTERVAL
        /\ update_interval >= MIN_UPDATE_INTERVAL
        /\ (IsNumber(env_interval) /\ env_interval.val >= MIN_UPDATE_INTERVAL) =>
              (env_interval.kind = "int" /\ update_interval = env_interval.val)

\* C13: the effective interval is the default when the setting is unset or
\* is not an integer literal (a text that is no number, or a decimal), is
\* never below the floor, equals the setting when the setting is an integer
\* at or above the floor, and is the floor when it is an integer below it;
\* reading the setting never ends main.
C13_EffectiveInterval ==
    startPc # "config" =>
        /\ env_interval.kind # "int" => update_interval = DEFAULT_UPDATE_INTERVAL
        /\ update_interval >= MIN_UPDATE_INTERVAL
        /\ (env_interval.kind = "int" /\ env_interval.val >= MIN_UPDATE_INTERVAL) =>
              update_interval = env_interval.val
        /\ (env_interval.kind = "int" /\ env_interval.val < MIN_UPDATE_INTERVAL) =>
              update_interval = MIN_UPDATE_INTERVAL
        /\ broker_ok => keep_alive # <<>>

C13_Witness ==
    /\ startPc = "discover"
    /\ env_interval.kind = "decimal"
    /\ env_interval.val > MIN_UPDATE_INTERVAL
    /\ update_interval = DEFAULT_UPDATE_INTERVAL

\* C14: when the gateway is unreachable or has no thermostat, main ends with
\* a non-zero status, and at no time has it built a controller, created a
\* controller task, triggered a controller or written a payload.
C14_DiscoveryFailureFatal ==
    (~gateway.reachable \/ gateway.devices = 0) =>
        /\ startPc \notin {"config", "discover"} =>
              (startPc = "exit" /\ exitStatus # <<>> /\ exitStatus[1] # 0)
        /\ thermostats = 0
        /\ created = 0
        /\ \A c \in Thermostats : trigCalls[c] = 0 /\ ~trig[c] /\ published[c] = 0
        /\ payload.state = "none"

C14_Witness ==
    /\ startPc = "exit"
    /\ broker_ok
    /\ gateway.reachable
    /\ gateway.devices = 0
    /\ exitStatus = <<1>>
    /\ created = 0

\* C15: once main has set the keep-alive that the publish channel is built
\* with, it is the effective polling interval plus the margin, so strictly
\* greater than the effective polling interval.
C15_KeepAliveAboveInterval ==
    keep_alive # <<>> =>
        /\ keep_alive[1] > update_interval
        /\ keep_alive[1] = update_interval + KEEP_ALIVE_MARGIN

C15_Witness ==
    /\ keep_alive = <<MIN_UPDATE_INTERVAL + KEEP_ALIVE_MARGIN>>
    /\ env_interval.kind = "int"
    /\ env_interval.val < MIN_UPDATE_INTERVAL

\* the step is a check_completion() sweep
Swept == checks' > checks

\* C16: single writers.  A step that calls trigger() on a controller leaves
\* its flag set, and a flag becomes set only by such a step: main only sets
\* flags.  A flag becomes clear only by the controller's own loop ending its
\* cycle.  A check_completion() sweep clears no flag and leaves every
\* availability and every task where it is, whether or not it logs an
\* overrun.
C16_SingleWriter ==
    [][\A c \in Thermostats :
          /\ Triggered(c) => trig'[c]
          /\ (~trig[c] /\ trig'[c]) => Triggered(c)
          /\ (trig[c] /\ ~trig'[c]) =>
                \E t \in tasks : ctrl(t) = c /\ pc[t] = "payload" /\ pc'[t] = "wait"
          /\ Swept => /\ trig[c] => trig'[c]
                      /\ available' = available
                      /\ pc' = pc
                      /\ current' = current]_vars

C16_Witness ==
    /\ checks >= 2
    /\ \E c \in lastOverruns :
          /\ trig[c]
          /\ available[c]
          /\ \E t \in tasks : ctrl(t) = c /\ pc[t] = "refresh"
    /\ \E c \in Thermostats \ lastOverruns : available[c]

\* C17: the order inside a cycle.  A task leaves the trigger wait only with
\* the flag set and into the refresh, leaves the refresh only into the
\* payload step, and leaves the payload step to the trigger wait with the
\* payload written and the flag cleared (or by the payload step failing);
\* the flag is cleared by no other step, so never before the refresh and
\* the payload step of the cycle are over, and it is set for as long as the
\* task is inside a cycle.
C17_CycleOrder ==
    [][\A t \in tasks :
          /\ pc'[t] # pc[t] =>
                <<pc[t], pc'[t]>> \in
                    {<<"wait", "refresh">>, <<"refresh", "payload">>,
                     <<"payload", "wait">>, <<"payload", "returned">>,
                     <<"wait", "cancelled">>, <<"refresh", "cancelled">>}
          /\ (pc[t] = "wait" /\ pc'[t] = "refresh") =>
                (trig[ctrl(t)] /\ trig'[ctrl(t)])
          /\ (pc[t] = "refresh" /\ pc'[t] = "payload") =>
                (trig'[ctrl(t)] /\ current' # <<>> /\ current'[1] = t)
          /\ (pc[t] = "payload" /\ pc'[t] = "wait") =>
                (~trig'[ctrl(t)] /\ published'[ctrl(t)] = published[ctrl(t)] + 1)
          /\ (trig[ctrl(t)] /\ ~trig'[ctrl(t)]) =>
                (pc[t] = "payload" /\ pc'[t] = "wait")
          /\ pc'[t] \in {"refresh", "payload"} => trig'[ctrl(t)]]_vars

C17_Witness ==
    \E t \in tasks :
        /\ pc[t] = "wait"
        /\ ~trig[ctrl(t)]
        /\ published[ctrl(t)] = 1
        /\ available[ctrl(t)]
        /\ orchPc = "waiting"

\* C18: a payload is written in a cycle only when the refresh of that cycle
\* left the device available; after a refresh that raised or gave invalid
\* data nothing is written.
C18_PublishOnlyIfAvailable ==
    [][\A c \in Thermostats :
          published'[c] > published[c] => available[c]]_vars

\* C19: when the gateway is reachable and has at least one thermostat, the
\* list main reads holds them all: main does not take the "No thermostats
\* discovered" exit and has a controller for every thermostat.
C19_RescanBeforeRead ==
    (broker_ok /\ gateway.reachable /\ gateway.devices >= 1
        /\ startPc \notin {"config", "discover"}) =>
            (startPc = "loop" /\ thermostats = gateway.devices)

\* C20: the loop of a controller ends only by cancellation: no task has
\* returned from update_publish_loop, and a task that has ended was asked
\* to by cancel().
C20_LoopEndsOnlyByCancel ==
    \A t \in tasks :
        /\ pc[t] # "returned"
        /\ pc[t] = "cancelled" => cancelReq[t]

\* C21: no trigger after shutdown.  In a step taken with shutdown set no
\* trigger() is called and no round is started, whenever the signal came:
\* before the first round (its handler runs at main's first suspension),
\* during the interval wait, or when the timeout had already run out.
C21_NoTriggerAfterShutdown ==
    [][shutdown => /\ \A c \in Thermostats : ~Triggered(c)
                   /\ round' = round]_vars

C21_Witness ==
    /\ orchPc = "exited"
    /\ shutdown
    /\ round >= 2
    /\ checks = round

\* C22: when CancelledError is delivered to main in the interval wait, main
\* leaves the trigger loop: the step calls no trigger(), starts no round and
\* does not put main back into the interval wait.
C22_OrchestratorCancellation ==
    [][(mainCancel = "requested" /\ mainCancel' = "delivered") =>
          /\ \A c \in Thermostats : ~Triggered(c)
          /\ round' = round
          /\ orchPc' # "waiting"]_vars

\* C23: the connected flag starts clear, becomes set only by a connect
\* event, is clear after every disconnect event, and a message is handed to
\* the bus client only in a step taken with the flag set, also when events
\* of the network thread run between the flag check of publish() and its
\* send.
C23_ConnectionGating ==
    [][/\ (~connected /\ connected') => (pubPc' = pubPc /\ nextMsg' = nextMsg)
       /\ lastRc' # lastRc => ~connected'
       /\ Len(handed') > Len(handed) => connected]_vars

====
